---- MODULE Spec2Model ----
(***************************************************************************)
(* Model of the codePost upload engine (codepost_api/helpers.py):          *)
(* upload_submission, _upload_submission_filediff and the gateway helpers  *)
(* they call, running against a remote store of submissions, files and     *)
(* comments.  Every remote call is one step and may fail.                  *)
(***************************************************************************)
EXTENDS Integers, Sequences, FiniteSets, TLC

(***************************************************************************)
(* Bounds of the model.                                                    *)
(***************************************************************************)
MaxExisting == 2      \* submissions on the remote before the first call
MaxDesired == 2       \* length of the desired file list
MaxCalls == 2         \* consecutive upload_submission calls with one request

(***************************************************************************)
(* Python values.                                                          *)
(***************************************************************************)
None == "None"
NL == "\n"

Range(s) == {s[i] : i \in 1..Len(s)}

\* str.replace("\n", "") on a string held as a sequence of characters
StripNewlines(code) == SelectSeq(code, LAMBDA c : c # NL)

EmptyDict == [k \in {} |-> None]

\* d[k] = v
DictSet(d, k, v) == [x \in (DOMAIN d) \cup {k} |-> IF x = k THEN v ELSE d[x]]

\* the dictionary without key k (the remote store after a delete)
DictDel(d, k) == [x \in (DOMAIN d) \ {k} |-> d[x]]

(***************************************************************************)
(* UploadModes: the five presets, and the set of all policies.             *)
(***************************************************************************)
CAUTIOUS ==
  [updateIfExists |-> FALSE, updateIfClaimed |-> FALSE, resolveStudents |-> FALSE,
   addFiles |-> FALSE, updateExistingFiles |-> FALSE, deleteUnspecifiedFiles |-> FALSE,
   removeComments |-> FALSE, doUnclaim |-> FALSE, deleteAffectedSubmissions |-> FALSE]

EXTEND ==
  [updateIfExists |-> TRUE, updateIfClaimed |-> FALSE, resolveStudents |-> TRUE,
   addFiles |-> TRUE, updateExistingFiles |-> FALSE, deleteUnspecifiedFiles |-> FALSE,
   removeComments |-> FALSE, doUnclaim |-> FALSE, deleteAffectedSubmissions |-> FALSE]

DIFFSCAN ==
  [updateIfExists |-> TRUE, updateIfClaimed |-> FALSE, resolveStudents |-> TRUE,
   addFiles |-> TRUE, updateExistingFiles |-> TRUE, deleteUnspecifiedFiles |-> FALSE,
   removeComments |-> FALSE, doUnclaim |-> FALSE, deleteAffectedSubmissions |-> FALSE]

OVERWRITE ==
  [updateIfExists |-> TRUE, updateIfClaimed |-> TRUE, resolveStudents |-> TRUE,
   addFiles |-> TRUE, updateExistingFiles |-> TRUE, deleteUnspecifiedFiles |-> TRUE,
   removeComments |-> TRUE, doUnclaim |-> TRUE, deleteAffectedSubmissions |-> TRUE]

PREGRADE ==
  [updateIfExists |-> TRUE, updateIfClaimed |-> FALSE, resolveStudents |-> TRUE,
   addFiles |-> TRUE, updateExistingFiles |-> TRUE, deleteUnspecifiedFiles |-> TRUE,
   removeComments |-> TRUE, doUnclaim |-> FALSE, deleteAffectedSubmissions |-> TRUE]

Presets == {CAUTIOUS, EXTEND, DIFFSCAN, OVERWRITE, PREGRADE}

AllModes ==
  [updateIfExists : BOOLEAN, updateIfClaimed : BOOLEAN, resolveStudents : BOOLEAN,
   addFiles : BOOLEAN, updateExistingFiles : BOOLEAN, deleteUnspecifiedFiles : BOOLEAN,
   removeComments : BOOLEAN, doUnclaim : BOOLEAN, deleteAffectedSubmissions : BOOLEAN]

(***************************************************************************)
(* State.                                                                  *)
(***************************************************************************)
VARIABLES
  subs,                  \* remote: submission id -> [students, grader, isFinalized, files]
  rfiles,                \* remote: file id -> [name, extension, code, comments]
  nextSubId, nextFileId, \* remote: ids of the next created submission / file
  students, files, mode, \* the request: arguments of upload_submission
  pc,                    \* position inside upload_submission ("idle" outside)
  callNo,                \* number of upload_submission calls started
  idx,                   \* index of the running for loop
  existing_submissions,  \* upload_submission: dict id -> submission as fetched
  submission,            \* id of the submission being created or updated
  existing_files,        \* filediff: dict name -> file as fetched
  existing_keys,         \* filediff: the keys of existing_files in insertion order
  submission_was_modified,
  files_to_process, comments_to_delete, \* remove_comments queues
  calls,                 \* gateway calls issued by the running call, in order
  result,                \* value returned by the call
  error,                 \* exception that ended the call
  remote0,               \* remote store when the running call started
  history                \* outcomes of the finished calls, in order

remote == <<subs, rfiles, nextSubId, nextFileId>>
request == <<students, files, mode>>
locals == <<idx, existing_submissions, submission, existing_files, existing_keys,
            submission_was_modified, files_to_process, comments_to_delete>>
vars == <<subs, rfiles, nextSubId, nextFileId, students, files, mode, pc, callNo,
          idx, existing_submissions, submission, existing_files, existing_keys,
          submission_was_modified, files_to_process, comments_to_delete,
          calls, result, error, remote0, history>>

(***************************************************************************)
(* Initial states: a remote store holding up to MaxExisting submissions    *)
(* with pairwise disjoint rosters, and one request.                        *)
(***************************************************************************)
Students == {"s1", "s2", "s3"}
Graders == {"g1"}

\* contents, as sequences of characters
X == <<"x">>
XNL == <<"x", NL>>
Y == <<"y">>

File(n, e, c) == [name |-> n, extension |-> e, code |-> c]

\* a file as it sits on the remote before the first call, with nc comments
Stored(n, e, c, nc) == [name |-> n, extension |-> e, code |-> c, ncomments |-> nc]

SeqsUpTo(S, n) == UNION {[1..k -> S] : k \in 0..n}

\* ids of the files (and of their comments) present before the first call
InitFileId(k, j) == 10 * k + j
InitCommentIds(fid, nc) == {10 * fid + c : c \in 1..nc}

InitSubs(base, specs) ==
  [i \in base..(base + Len(specs) - 1) |->
     LET k == i - base + 1 IN
       [students |-> specs[k].students,
        grader |-> specs[k].grader,
        isFinalized |-> specs[k].isFinalized,
        files |-> [j \in 1..Len(specs[k].layout) |-> InitFileId(k, j)]]]

InitFiles(specs) ==
  LET ids == {<<k, j>> \in (1..Len(specs)) \X (1..4) : j <= Len(specs[k].layout)}
      kj(fid) == CHOOSE p \in ids : InitFileId(p[1], p[2]) = fid
  IN [fid \in {InitFileId(p[1], p[2]) : p \in ids} |->
        LET f == specs[kj(fid)[1]].layout[kj(fid)[2]] IN
          [name |-> f.name, extension |-> f.extension, code |-> f.code,
           comments |-> InitCommentIds(fid, f.ncomments)]]

Disjoint(specs) ==
  \A a, b \in 1..Len(specs) : a # b => specs[a].students \cap specs[b].students = {}

\* the rosters come from a list, and ids follow the order of the list
Ordered(specs, rosterList) ==
  \A a, b \in 1..Len(specs) :
    a < b => \E i, j \in 1..Len(rosterList) :
               i < j /\ rosterList[i] = specs[a].students
                     /\ rosterList[j] = specs[b].students

\* a submission is finalized exactly when it has a grader
SubSpecs(rosterList, layouts) ==
  {s \in [students : Range(rosterList), grader : Graders \cup {None},
          isFinalized : BOOLEAN, layout : Range(layouts)] :
     s.isFinalized <=> s.grader # None}

\* only the files of the first submission vary
OneVaries(specs, layouts) ==
  \A k \in 2..Len(specs) : specs[k].layout = layouts[1]

Prefixes(list, n) == {SubSeq(list, 1, k) : k \in 0..(IF n < Len(list) THEN n ELSE Len(list))}

InitWith(modes, studentLists, desiredList, rosterList, layouts, bases) ==
  /\ mode \in modes
  /\ students \in studentLists
  /\ files \in Prefixes(desiredList, MaxDesired)
  /\ \E base \in bases :
       \E specs \in SeqsUpTo(SubSpecs(rosterList, layouts), MaxExisting) :
         /\ Disjoint(specs)
         /\ Ordered(specs, rosterList)
         /\ OneVaries(specs, layouts)
         /\ Len(specs) = 0 => base = 1
         /\ subs = InitSubs(base, specs)
         /\ rfiles = InitFiles(specs)
         /\ nextSubId = base + Len(specs)
         /\ nextFileId = InitFileId(Len(specs) + 1, 1)
  /\ pc = "idle"
  /\ callNo = 0
  /\ idx = 0
  /\ existing_submissions = EmptyDict
  /\ submission = None
  /\ existing_files = EmptyDict
  /\ existing_keys = <<>>
  /\ submission_was_modified = FALSE
  /\ files_to_process = <<>>
  /\ comments_to_delete = {}
  /\ calls = <<>>
  /\ result = None
  /\ error = None
  /\ remote0 = [subs |-> subs, rfiles |-> rfiles]
  /\ history = <<>>

(***************************************************************************)
(* The remote store: what each gateway request does when it succeeds.      *)
(***************************************************************************)
\* GET /assignments/<id>/submissions?student=<student>
RemoteListSubmissions(student) ==
  {[id |-> i, students |-> subs[i].students, grader |-> subs[i].grader,
    isFinalized |-> subs[i].isFinalized, files |-> subs[i].files] :
     i \in {j \in DOMAIN subs : student \in subs[j].students}}

\* POST /submissions/
RemoteCreateSubmission(roster) ==
  DictSet(subs, nextSubId,
          [students |-> roster, grader |-> None, isFinalized |-> FALSE, files |-> <<>>])

\* POST /files/
RemoteCreateFile(file) ==
  DictSet(rfiles, nextFileId,
          [name |-> file.name, extension |-> file.extension, code |-> file.code,
           comments |-> {}])

RemoteLinkFile(sid) == [subs EXCEPT ![sid].files = Append(@, nextFileId)]

\* DELETE /files/<fid>/ : the file goes, with its comments
RemoteUnlinkFile(fid) ==
  [i \in DOMAIN subs |->
     [subs[i] EXCEPT !.files = SelectSeq(@, LAMBDA f : f # fid)]]

\* DELETE /comments/<cid>/
RemoteDeleteComment(cid) ==
  [f \in DOMAIN rfiles |-> [rfiles[f] EXCEPT !.comments = @ \ {cid}]]

(***************************************************************************)
(* Bookkeeping shared by the steps.                                        *)
(***************************************************************************)
MutationOps == {"post_submission", "post_file", "delete_file", "delete_submission",
                "set_submission_students", "set_submission_grader", "delete_comment"}

Call(op, id, ok) == calls' = Append(calls, [op |-> op, id |-> id, ok |-> ok])

Raise(exc) ==
  /\ pc' = "failed"
  /\ error' = exc
  /\ result' = None
  /\ history' = Append(history, [result |-> None, error |-> exc])

Return(value) ==
  /\ pc' = "done"
  /\ result' = value
  /\ error' = None
  /\ history' = Append(history, [result |-> value, error |-> None])

Running(next) == pc' = next /\ UNCHANGED <<result, error, history>>

\* the three UploadError raises of upload_submission, told apart by message
PolicyViolations == {"ExistsConflict", "ClaimedConflict", "StudentSetConflict"}

(***************************************************************************)
(* upload_submission: entry and resolution of the existing submissions.    *)
(***************************************************************************)
StartUpload ==
  /\ pc \in {"idle", "done"}
  /\ callNo < MaxCalls
  /\ callNo' = callNo + 1
  /\ pc' = IF Len(students) = 0 THEN "collision" ELSE "resolve"
  /\ idx' = 1
  /\ existing_submissions' = EmptyDict
  /\ submission' = None
  /\ existing_files' = EmptyDict
  /\ existing_keys' = <<>>
  /\ submission_was_modified' = FALSE
  /\ files_to_process' = <<>>
  /\ comments_to_delete' = {}
  /\ calls' = <<>>
  /\ result' = None
  /\ error' = None
  /\ remote0' = [subs |-> subs, rfiles |-> rfiles]
  /\ UNCHANGED <<remote, request, history>>

\* variant: each fetch replaces what the earlier students' fetches found
MergeByIdLastFetch(dict, fetched) ==
  [i \in {s.id : s \in fetched} |-> CHOOSE s \in fetched : s.id = i]

\* existing_submissions[submission["id"]] = submission, for each one fetched
MergeById(dict, fetched) ==
  [i \in (DOMAIN dict) \cup {s.id : s \in fetched} |->
     IF i \in {s.id : s \in fetched}
       THEN CHOOSE s \in fetched : s.id = i
       ELSE dict[i]]

GetAssignmentSubmissions ==
  /\ pc = "resolve"
  /\ \E ok \in BOOLEAN :
       /\ Call("get_assignment_submissions", idx, ok)
       /\ IF ok
            THEN /\ existing_submissions' =
                      MergeById(existing_submissions, RemoteListSubmissions(students[idx]))
                 /\ idx' = idx + 1
                 /\ Running(IF idx = Len(students) THEN "collision" ELSE "resolve")
            ELSE /\ Raise("RuntimeError")
                 /\ UNCHANGED <<existing_submissions, idx>>
  /\ UNCHANGED <<remote, request, callNo, submission, existing_files, existing_keys,
                 submission_was_modified, files_to_process, comments_to_delete, remote0>>

(***************************************************************************)
(* upload_submission: collision check and the three guards.                *)
(***************************************************************************)
Values(d) == {d[k] : k \in DOMAIN d}

submission_list_is_unclaimed(submissions) ==
  \A s \in submissions : s.grader = None

\* variant: the first guard reads the flag of the second one
ExistsGuardWrongFlag(E, m) == ~m.updateIfClaimed

\* not mode.value["updateIfExists"]
ExistsGuard(E, m) == ~m.updateIfExists

\* not mode.value["updateIfClaimed"] and _submission_list_is_unclaimed(...)
ClaimedGuard(E, m) ==
  ~m.updateIfClaimed /\ submission_list_is_unclaimed(Values(E))

\* The resolveStudents check.  existing_submissions is keyed by submission
\* id, so existing_submissions[0] is a KeyError unless a submission has
\* id 0; with more than one submission the lookup happens while the
\* message of the UploadError is formatted.
StudentsGuard(E, studs, m) ==
  IF m.resolveStudents THEN "pass"
  ELSE IF Cardinality(DOMAIN E) > 1
    THEN IF 0 \in DOMAIN E THEN "StudentSetConflict" ELSE "KeyError"
  ELSE IF 0 \notin DOMAIN E THEN "KeyError"
  ELSE IF Range(studs) # E[0].students THEN "StudentSetConflict"
  ELSE "pass"

\* variant: the updateIfExists guard runs before the emptiness test
CollisionGuardFirst(E, studs, m) ==
  IF ExistsGuard(E, m) THEN "ExistsConflict"
  ELSE IF Cardinality(DOMAIN E) = 0 THEN "post_submission"
  ELSE IF ClaimedGuard(E, m) THEN "ClaimedConflict"
  ELSE IF StudentsGuard(E, studs, m) # "pass" THEN StudentsGuard(E, studs, m)
  ELSE IF Cardinality(DOMAIN E) > 1 THEN "split"
  ELSE "set_students"

\* where upload_submission goes once the existing submissions are known
Collision(E, studs, m) ==
  IF Cardinality(DOMAIN E) = 0 THEN "post_submission"
  ELSE IF ExistsGuard(E, m) THEN "ExistsConflict"
  ELSE IF ClaimedGuard(E, m) THEN "ClaimedConflict"
  ELSE IF StudentsGuard(E, studs, m) # "pass" THEN StudentsGuard(E, studs, m)
  ELSE IF Cardinality(DOMAIN E) > 1 THEN "split"
  ELSE "set_students"

\* variant: a claimed submission is turned down only after the roster patch
AfterRosterPatchLateGuard(E, studs, m) ==
  IF ~m.updateIfClaimed /\ ~submission_list_is_unclaimed(Values(E))
    THEN "ClaimedConflict"
    ELSE "fd_get"

\* what follows the roster patch of the update case
AfterRosterPatch(E, studs, m) == "fd_get"

Goto(target) ==
  IF target \in PolicyViolations \cup {"KeyError", "TypeError"}
    THEN Raise(target)
    ELSE Running(target)

CaseCreate ==
  /\ pc = "collision"
  /\ Collision(existing_submissions, students, mode) = "post_submission"
  /\ Goto("post_submission")
  /\ UNCHANGED <<remote, request, callNo, locals, calls, remote0>>

RaiseUploadError ==
  /\ pc = "collision"
  /\ Collision(existing_submissions, students, mode) \in PolicyViolations
  /\ Goto(Collision(existing_submissions, students, mode))
  /\ UNCHANGED <<remote, request, callNo, locals, calls, remote0>>

RaiseKeyError ==
  /\ pc = "collision"
  /\ Collision(existing_submissions, students, mode) = "KeyError"
  /\ Goto("KeyError")
  /\ UNCHANGED <<remote, request, callNo, locals, calls, remote0>>

CaseSplit ==
  /\ pc = "collision"
  /\ Collision(existing_submissions, students, mode) = "split"
  /\ Goto("split")
  /\ UNCHANGED <<remote, request, callNo, locals, calls, remote0>>

\* submission = list(existing_submissions.values())[0]
CaseUpdate ==
  /\ pc = "collision"
  /\ Collision(existing_submissions, students, mode) = "set_students"
  /\ submission' = CHOOSE i \in DOMAIN existing_submissions : TRUE
  /\ Goto("set_students")
  /\ UNCHANGED <<remote, request, callNo, idx, existing_submissions, existing_files,
                 existing_keys, submission_was_modified, files_to_process,
                 comments_to_delete, calls, remote0>>

(***************************************************************************)
(* CASE 2: several existing submissions.                                   *)
(***************************************************************************)
\* "for submission in existing_submissions": iterating a dict yields its keys
IterDict(d) == {[type |-> "int", key |-> k] : k \in DOMAIN d}

\* remove_students_from_submission starts with submission_info["students"],
\* which raises TypeError for anything but a dict
SplitRemoveStudents ==
  /\ pc = "split"
  /\ \E submission_info \in IterDict(existing_submissions) :
       /\ submission_info.type # "dict"
       /\ Raise("TypeError")
  /\ UNCHANGED <<remote, request, callNo, locals, calls, remote0>>

(***************************************************************************)
(* post_submission: create the submission, then post each file.            *)
(***************************************************************************)
PostSubmission ==
  /\ pc = "post_submission"
  /\ \E ok \in BOOLEAN :
       /\ Call("post_submission", nextSubId, ok)
       /\ IF ok
            THEN /\ subs' = RemoteCreateSubmission(Range(students))
                 /\ nextSubId' = nextSubId + 1
                 /\ submission' = nextSubId
                 /\ idx' = 1
                 /\ IF Len(files) = 0 THEN Return("submission")
                                      ELSE Running("post_files")
            ELSE /\ Raise("RuntimeError")
                 /\ UNCHANGED <<subs, nextSubId, submission, idx>>
  /\ UNCHANGED <<rfiles, nextFileId, request, callNo, existing_submissions,
                 existing_files, existing_keys, submission_was_modified,
                 files_to_process, comments_to_delete, remote0>>

PostFile ==
  /\ pc = "post_files"
  /\ \E ok \in BOOLEAN :
       /\ Call("post_file", submission, ok)
       /\ IF ok
            THEN /\ rfiles' = RemoteCreateFile(files[idx])
                 /\ subs' = RemoteLinkFile(submission)
                 /\ nextFileId' = nextFileId + 1
                 /\ idx' = idx + 1
                 /\ IF idx = Len(files) THEN Return("submission")
                                        ELSE Running("post_files")
            ELSE /\ Raise("RuntimeError")
                 /\ UNCHANGED <<rfiles, subs, nextFileId, idx>>
  /\ UNCHANGED <<nextSubId, request, callNo, existing_submissions, submission,
                 existing_files, existing_keys, submission_was_modified,
                 files_to_process, comments_to_delete, remote0>>

(***************************************************************************)
(* CASE 3: exactly one existing submission.                                *)
(***************************************************************************)
\* variant: the patch adds the students to the roster
PatchedRosterMerged(current, studs) == current \cup Range(studs)

\* the roster after PATCH {"students": students}
PatchedRoster(current, studs) == Range(studs)

\* set_submission_students
SetSubmissionStudents ==
  /\ pc = "set_students"
  /\ \E ok \in {b \in BOOLEAN : b => submission \in DOMAIN subs} :
       /\ Call("set_submission_students", submission, ok)
       /\ IF ok
            THEN /\ subs' = [subs EXCEPT ![submission].students =
                                           PatchedRoster(@, students)]
                 /\ idx' = 1
                 /\ Goto(AfterRosterPatch(existing_submissions, students, mode))
            ELSE /\ Raise("RuntimeError")
                 /\ UNCHANGED <<subs, idx>>
  /\ UNCHANGED <<rfiles, nextSubId, nextFileId, request, callNo, existing_submissions,
                 submission, existing_files, existing_keys, submission_was_modified,
                 files_to_process, comments_to_delete, remote0>>

(***************************************************************************)
(* _upload_submission_filediff.                                            *)
(***************************************************************************)
\* submission_info: the submission as it was fetched during resolution
submission_info == existing_submissions[submission]

\* existing_files = {file["name"]: file for file in [get_file(...) ...]}
GetFile ==
  /\ pc = "fd_get"
  /\ idx <= Len(submission_info.files)
  /\ LET fid == submission_info.files[idx] IN
       \E ok \in {b \in BOOLEAN : b => fid \in DOMAIN rfiles} :
         /\ Call("get_file", fid, ok)
         /\ IF ok
              THEN LET f == rfiles[fid] IN
                     /\ existing_files' =
                          DictSet(existing_files, f.name,
                                  [id |-> fid, name |-> f.name,
                                   extension |-> f.extension, code |-> f.code])
                     /\ existing_keys' =
                          IF f.name \in DOMAIN existing_files
                            THEN existing_keys
                            ELSE Append(existing_keys, f.name)
                     /\ idx' = idx + 1
                     /\ Running("fd_get")
              ELSE /\ Raise("RuntimeError")
                   /\ UNCHANGED <<existing_files, existing_keys, idx>>
  /\ UNCHANGED <<remote, request, callNo, existing_submissions, submission,
                 submission_was_modified, files_to_process, comments_to_delete, remote0>>

GetFilesDone ==
  /\ pc = "fd_get"
  /\ idx > Len(submission_info.files)
  /\ idx' = 1
  /\ Running("fd_loop")
  /\ UNCHANGED <<remote, request, callNo, existing_submissions, submission, existing_files,
                 existing_keys, submission_was_modified, files_to_process,
                 comments_to_delete, calls, remote0>>

\* file["name"] in existing_files and
\* existing_files[file["name"]]["extension"] == file["extension"]
Matches(file, existing) ==
  /\ file.name \in DOMAIN existing
  /\ existing[file.name].extension = file.extension

\* data_existing != data_new, both without their newlines
Differs(file, existing) ==
  StripNewlines(existing[file.name].code) # StripNewlines(file.code)

\* what the loop body does for one desired file
FileAction(file, existing, m) ==
  IF Matches(file, existing)
    THEN IF m.updateExistingFiles /\ Differs(file, existing) THEN "replace" ELSE "skip"
    ELSE IF m.addFiles THEN "add" ELSE "skip"

FileDiffSkip ==
  /\ pc = "fd_loop"
  /\ idx <= Len(files)
  /\ FileAction(files[idx], existing_files, mode) = "skip"
  /\ idx' = idx + 1
  /\ Running("fd_loop")
  /\ UNCHANGED <<remote, request, callNo, existing_submissions, submission, existing_files,
                 existing_keys, submission_was_modified, files_to_process,
                 comments_to_delete, calls, remote0>>

\* the delete_file half of a replacement
FileDiffDelete ==
  /\ pc = "fd_loop"
  /\ idx <= Len(files)
  /\ FileAction(files[idx], existing_files, mode) = "replace"
  /\ submission_was_modified' = TRUE
  /\ LET fid == existing_files[files[idx].name].id IN
       \E ok \in {b \in BOOLEAN : b => fid \in DOMAIN rfiles} :
         /\ Call("delete_file", fid, ok)
         /\ IF ok
              THEN /\ rfiles' = DictDel(rfiles, fid)
                   /\ subs' = RemoteUnlinkFile(fid)
                   /\ Running("fd_replace")
              ELSE /\ Raise("RuntimeError")
                   /\ UNCHANGED <<rfiles, subs>>
  /\ UNCHANGED <<nextSubId, nextFileId, request, callNo, idx, existing_submissions,
                 submission, existing_files, existing_keys, files_to_process,
                 comments_to_delete, remote0>>

\* post_file to the submission being updated
FileDiffPost(from) ==
  /\ pc = from
  /\ \E ok \in {b \in BOOLEAN : b => submission \in DOMAIN subs} :
       /\ Call("post_file", submission, ok)
       /\ IF ok
            THEN /\ rfiles' = RemoteCreateFile(files[idx])
                 /\ subs' = RemoteLinkFile(submission)
                 /\ nextFileId' = nextFileId + 1
                 /\ idx' = idx + 1
                 /\ Running("fd_loop")
            ELSE /\ Raise("RuntimeError")
                 /\ UNCHANGED <<rfiles, subs, nextFileId, idx>>
  /\ UNCHANGED <<nextSubId, request, callNo, existing_submissions, submission,
                 existing_files, existing_keys, files_to_process, comments_to_delete,
                 remote0>>

\* the post_file half of a replacement
FileDiffReplace ==
  /\ FileDiffPost("fd_replace")
  /\ UNCHANGED submission_was_modified

FileDiffAdd ==
  /\ pc = "fd_loop"
  /\ idx <= Len(files)
  /\ FileAction(files[idx], existing_files, mode) = "add"
  /\ submission_was_modified' = TRUE
  /\ FileDiffPost("fd_loop")

FileDiffLoopDone ==
  /\ pc = "fd_loop"
  /\ idx > Len(files)
  /\ idx' = 1
  /\ Running(IF mode.deleteUnspecifiedFiles THEN "fd_unspecified" ELSE "finish")
  /\ UNCHANGED <<remote, request, callNo, existing_submissions, submission, existing_files,
                 existing_keys, submission_was_modified, files_to_process,
                 comments_to_delete, calls, remote0>>

\* newest_files_names = [x["name"] for x in newest_files]
newest_files_names == {files[i].name : i \in 1..Len(files)}

DeleteUnspecifiedSkip ==
  /\ pc = "fd_unspecified"
  /\ idx <= Len(existing_keys)
  /\ existing_keys[idx] \in newest_files_names
  /\ idx' = idx + 1
  /\ Running("fd_unspecified")
  /\ UNCHANGED <<remote, request, callNo, existing_submissions, submission, existing_files,
                 existing_keys, submission_was_modified, files_to_process,
                 comments_to_delete, calls, remote0>>

\* variant: deleting an unspecified file leaves the flag as it was
ModifiedAfterDeleteKept(modified) == modified

\* submission_was_modified = True, after delete_file of an unspecified file
ModifiedAfterDelete(modified) == TRUE

DeleteUnspecified ==
  /\ pc = "fd_unspecified"
  /\ idx <= Len(existing_keys)
  /\ existing_keys[idx] \notin newest_files_names
  /\ LET fid == existing_files[existing_keys[idx]].id IN
       \E ok \in {b \in BOOLEAN : b => fid \in DOMAIN rfiles} :
         /\ Call("delete_file", fid, ok)
         /\ IF ok
              THEN /\ rfiles' = DictDel(rfiles, fid)
                   /\ subs' = RemoteUnlinkFile(fid)
                   /\ submission_was_modified' = ModifiedAfterDelete(submission_was_modified)
                   /\ idx' = idx + 1
                   /\ Running("fd_unspecified")
              ELSE /\ Raise("RuntimeError")
                   /\ UNCHANGED <<rfiles, subs, submission_was_modified, idx>>
  /\ UNCHANGED <<nextSubId, nextFileId, request, callNo, existing_submissions,
                 submission, existing_files, existing_keys, files_to_process,
                 comments_to_delete, remote0>>

DeleteUnspecifiedDone ==
  /\ pc = "fd_unspecified"
  /\ idx > Len(existing_keys)
  /\ Running("finish")
  /\ UNCHANGED <<remote, request, callNo, locals, calls, remote0>>

(***************************************************************************)
(* upload_submission: finishing actions of the update case.                *)
(***************************************************************************)
\* the value returned at the end of the update case: "return True"
UpdateResult(modified) == "True"

\* variant: the comment purge does not depend on removeComments
AfterFileDiffPurgeAlways(modified, m) ==
  IF modified THEN "rc_submission" ELSE "return"

\* variant: the unclaim does not depend on the outcome of the file diff
AfterFileDiffUnclaimAlways(modified, m) ==
  IF modified /\ m.removeComments THEN "rc_submission"
  ELSE IF m.doUnclaim THEN "unclaim"
  ELSE "return"

\* what follows the file diff, and what follows remove_comments
AfterFileDiff(modified, m) ==
  IF modified /\ m.removeComments THEN "rc_submission"
  ELSE IF modified /\ m.doUnclaim THEN "unclaim"
  ELSE "return"

AfterRemoveComments(m) == IF m.doUnclaim THEN "unclaim" ELSE "return"

Finish(target) ==
  IF target = "return"
    THEN Return(UpdateResult(submission_was_modified))
    ELSE Running(target)

FinishingActions ==
  /\ pc = "finish"
  /\ Finish(AfterFileDiff(submission_was_modified, mode))
  /\ UNCHANGED <<remote, request, callNo, locals, calls, remote0>>

(***************************************************************************)
(* remove_comments(submission_id): every request sits in a try block whose *)
(* except clause continues, so no failure leaves the function.             *)
(***************************************************************************)
\* Step 1: GET the submission, queue its files
RemoveCommentsGetSubmission ==
  /\ pc = "rc_submission"
  /\ \E ok \in {b \in BOOLEAN : b => submission \in DOMAIN subs} :
       /\ Call("get_submission", submission, ok)
       /\ files_to_process' = IF ok THEN subs[submission].files ELSE <<>>
  /\ comments_to_delete' = {}
  /\ idx' = 1
  /\ Running("rc_files")
  /\ UNCHANGED <<remote, request, callNo, existing_submissions, submission, existing_files,
                 existing_keys, submission_was_modified, remote0>>

\* Step 2: GET each queued file, queue its comments
RemoveCommentsGetFile ==
  /\ pc = "rc_files"
  /\ idx <= Len(files_to_process)
  /\ LET fid == files_to_process[idx] IN
       \E ok \in {b \in BOOLEAN : b => fid \in DOMAIN rfiles} :
         /\ Call("get_file", fid, ok)
         /\ comments_to_delete' =
              IF ok THEN comments_to_delete \cup rfiles[fid].comments
                    ELSE comments_to_delete
  /\ idx' = idx + 1
  /\ Running("rc_files")
  /\ UNCHANGED <<remote, request, callNo, existing_submissions, submission, existing_files,
                 existing_keys, submission_was_modified, files_to_process, remote0>>

RemoveCommentsFilesDone ==
  /\ pc = "rc_files"
  /\ idx > Len(files_to_process)
  /\ Running("rc_delete")
  /\ UNCHANGED <<remote, request, callNo, locals, calls, remote0>>

\* Step 3: DELETE each queued comment.  A status other than 204 runs
\* "comments_to_delete += ..." on a set, a TypeError the except clause
\* swallows; comments_to_delete holds the comments still to visit.
RemoveCommentsDelete ==
  /\ pc = "rc_delete"
  /\ \E cid \in comments_to_delete :
       /\ \E ok \in {b \in BOOLEAN : b => \E f \in DOMAIN rfiles : cid \in rfiles[f].comments} :
            /\ Call("delete_comment", cid, ok)
            /\ rfiles' = IF ok THEN RemoteDeleteComment(cid) ELSE rfiles
       /\ comments_to_delete' = comments_to_delete \ {cid}
  /\ Running("rc_delete")
  /\ UNCHANGED <<subs, nextSubId, nextFileId, request, callNo, idx, existing_submissions,
                 submission, existing_files, existing_keys, submission_was_modified,
                 files_to_process, remote0>>

RemoveCommentsDone ==
  /\ pc = "rc_delete"
  /\ comments_to_delete = {}
  /\ Finish(AfterRemoveComments(mode))
  /\ UNCHANGED <<remote, request, callNo, locals, calls, remote0>>

(***************************************************************************)
(* unclaim_submission = set_submission_grader(grader=None): the PATCH      *)
(* carries grader "" and isFinalized False.                                *)
(***************************************************************************)
\* grader in [None, "", "None", "null"]
UnassignValues == {None, "", "null"}

\* variant: the patch that unassigns carries the grader only
GraderPatchGraderOnly(s, grader) ==
  [s EXCEPT !.grader = IF grader \in UnassignValues THEN None ELSE grader]

\* the submission after the PATCH of set_submission_grader
GraderPatch(s, grader) ==
  IF grader \in UnassignValues
    THEN [s EXCEPT !.grader = None, !.isFinalized = FALSE]
    ELSE [s EXCEPT !.grader = grader]

UnclaimSubmission ==
  /\ pc = "unclaim"
  /\ \E ok \in {b \in BOOLEAN : b => submission \in DOMAIN subs} :
       /\ Call("set_submission_grader", submission, ok)
       /\ IF ok
            THEN /\ subs' = [subs EXCEPT ![submission] = GraderPatch(@, None)]
                 /\ Return(UpdateResult(submission_was_modified))
            ELSE /\ Raise("RuntimeError")
                 /\ UNCHANGED subs
  /\ UNCHANGED <<rfiles, nextSubId, nextFileId, request, callNo, locals, remote0>>

(***************************************************************************)
(* Specifications.                                                         *)
(***************************************************************************)
Next ==
  \/ StartUpload
  \/ GetAssignmentSubmissions
  \/ CaseCreate
  \/ RaiseUploadError
  \/ RaiseKeyError
  \/ CaseSplit
  \/ CaseUpdate
  \/ SplitRemoveStudents
  \/ PostSubmission
  \/ PostFile
  \/ SetSubmissionStudents
  \/ GetFile
  \/ GetFilesDone
  \/ FileDiffSkip
  \/ FileDiffDelete
  \/ FileDiffReplace
  \/ FileDiffAdd
  \/ FileDiffLoopDone
  \/ DeleteUnspecifiedSkip
  \/ DeleteUnspecified
  \/ DeleteUnspecifiedDone
  \/ FinishingActions
  \/ RemoveCommentsGetSubmission
  \/ RemoveCommentsGetFile
  \/ RemoveCommentsFilesDone
  \/ RemoveCommentsDelete
  \/ RemoveCommentsDone
  \/ UnclaimSubmission

\* every policy, against small stores
Init ==
  InitWith(AllModes,
           {<<"s1", "s2">>},
           <<File("a", "py", X), File("b", "py", Y), File("a", "txt", X)>>,
           <<{"s1"}, {"s1", "s2"}, {"s2", "s3"}, {"s3"}>>,
           <<<<Stored("a", "py", XNL, 1)>>, <<Stored("a", "py", Y, 1)>>>>,
           {0, 1})

Spec == Init /\ [][Next]_vars

\* the policies that let every guard pass whatever the store holds, with
\* the presets and one policy that forbids resolving students
FileModes ==
  {m \in AllModes : /\ m.updateIfExists /\ m.updateIfClaimed /\ m.resolveStudents
                    /\ m.deleteAffectedSubmissions}
    \cup Presets
    \cup {[OVERWRITE EXCEPT !.resolveStudents = FALSE]}

\* the file sets of the first submission: equal up to newlines, different,
\* two files of one name, a file the request does not name
FileLayouts ==
  <<<<Stored("a", "py", XNL, 1)>>,
    <<Stored("a", "py", Y, 1)>>,
    <<Stored("a", "py", XNL, 1), Stored("a", "txt", X, 0)>>,
    <<Stored("a", "py", Y, 1), Stored("a", "txt", X, 0)>>,
    <<Stored("a", "py", XNL, 1), Stored("c", "py", Y, 1)>>>>

DesiredLists ==
  {<<File("a", "py", X), File("b", "py", Y), File("a", "txt", X)>>,
   <<File("a", "py", X), File("a", "txt", X), File("b", "py", Y)>>}

\* few policies and stores, many file sets
InitFileSets ==
  \E desiredList \in DesiredLists :
    InitWith(FileModes,
             {<<"s1", "s2">>},
             desiredList,
             <<{"s1"}, {"s1", "s2"}, {"s2", "s3"}>>,
             FileLayouts,
             {1})

SpecFiles == InitFileSets /\ [][Next]_vars

(***************************************************************************)
(* The helpers called on their own: set_submission_grader (and with it     *)
(* unclaim_submission), delete_submission, delete_file and                 *)
(* remove_students_from_submission, each one request to the gateway.       *)
(***************************************************************************)
\* the body of a 204 answer, and r.json() on a body
NoContent == <<>>

Json(body) == IF body = <<>> THEN "ValueError" ELSE "value"

\* how delete_submission ends: "return r.json()" after the status test
delete_submission_outcome(ok) ==
  IF ~ok THEN "RuntimeError"
  ELSE IF Json(NoContent) = "ValueError" THEN "RuntimeError"
  ELSE "value"

\* how delete_file ends: "return True" after the status test
delete_file_outcome(ok) == IF ok THEN "True" ELSE "RuntimeError"

Outcome(value) == IF value = "RuntimeError" THEN Raise(value) ELSE Return(value)

\* DELETE /submissions/<sid>/ : the submission goes, with its files
RemoteDeleteSubmission(sid) == DictDel(subs, sid)

RemoteDropFilesOf(sid) ==
  [f \in (DOMAIN rfiles) \ Range(subs[sid].files) |-> rfiles[f]]

HelperStart ==
  /\ pc \in {"idle", "done", "failed"}
  /\ callNo < MaxCalls
  /\ callNo' = callNo + 1
  /\ idx' = 0
  /\ existing_submissions' = EmptyDict
  /\ submission' = None
  /\ existing_files' = EmptyDict
  /\ existing_keys' = <<>>
  /\ submission_was_modified' = FALSE
  /\ files_to_process' = <<>>
  /\ comments_to_delete' = {}
  /\ remote0' = [subs |-> subs, rfiles |-> rfiles]
  /\ UNCHANGED <<request, nextSubId, nextFileId>>

delete_submission(submission_id) ==
  \E ok \in {b \in BOOLEAN : b => submission_id \in DOMAIN subs} :
    /\ calls' = <<[op |-> "delete_submission", id |-> submission_id, ok |-> ok]>>
    /\ IF ok
         THEN /\ subs' = RemoteDeleteSubmission(submission_id)
              /\ rfiles' = RemoteDropFilesOf(submission_id)
         ELSE UNCHANGED <<subs, rfiles>>
    /\ Outcome(delete_submission_outcome(ok))

CallSetSubmissionGrader ==
  /\ HelperStart
  /\ \E submission_id \in DOMAIN subs : \E grader \in Graders \cup {None} :
       \E ok \in BOOLEAN :
         /\ calls' = <<[op |-> "set_submission_grader", id |-> submission_id, ok |-> ok]>>
         /\ IF ok
              THEN /\ subs' = [subs EXCEPT ![submission_id] = GraderPatch(@, grader)]
                   /\ Return("True")
              ELSE /\ Raise("RuntimeError")
                   /\ UNCHANGED subs
  /\ UNCHANGED rfiles

CallDeleteSubmission ==
  /\ HelperStart
  /\ \E submission_id \in DOMAIN subs : delete_submission(submission_id)

CallDeleteFile ==
  /\ HelperStart
  /\ \E file_id \in DOMAIN rfiles : \E ok \in BOOLEAN :
       /\ calls' = <<[op |-> "delete_file", id |-> file_id, ok |-> ok]>>
       /\ IF ok
            THEN /\ rfiles' = DictDel(rfiles, file_id)
                 /\ subs' = RemoteUnlinkFile(file_id)
            ELSE UNCHANGED <<subs, rfiles>>
       /\ Outcome(delete_file_outcome(ok))

\* remove_students_from_submission(submission_info, students_to_remove), the
\* submission as the remote holds it and the students of the request
CallRemoveStudentsFromSubmission ==
  /\ HelperStart
  /\ \E sid \in DOMAIN subs :
       LET new_student_list == subs[sid].students \ Range(students) IN
         IF new_student_list = {}
           THEN delete_submission(sid)
           ELSE \E ok \in BOOLEAN :
                  /\ calls' = <<[op |-> "set_submission_students", id |-> sid, ok |-> ok]>>
                  /\ IF ok
                       THEN /\ subs' = [subs EXCEPT ![sid].students = new_student_list]
                            /\ Return("submission")
                       ELSE /\ Raise("RuntimeError")
                            /\ UNCHANGED subs
                  /\ UNCHANGED rfiles

NextEngine ==
  \/ Next
  \/ CallSetSubmissionGrader
  \/ CallDeleteSubmission
  \/ CallDeleteFile
  \/ CallRemoveStudentsFromSubmission

EngineModes == Presets \cup {[OVERWRITE EXCEPT !.resolveStudents = FALSE]}

\* the second list names a.py twice
EngineDesiredLists ==
  {<<File("a", "py", X), File("b", "py", Y)>>,
   <<File("a", "py", X), File("a", "py", X)>>}

InitEngine ==
  \E desiredList \in EngineDesiredLists :
    InitWith(EngineModes,
             {<<"s1", "s2">>},
             desiredList,
             <<{"s1"}, {"s1", "s2"}, {"s2", "s3"}>>,
             FileLayouts,
             {1})

SpecEngine == InitEngine /\ [][NextEngine]_vars

(***************************************************************************)
(* Vocabulary of the properties.                                           *)
(***************************************************************************)
E == existing_submissions

NumExisting == Cardinality(DOMAIN E)

Mutations == {i \in 1..Len(calls) : calls[i].op \in MutationOps}

RemoteUntouched == subs = remote0.subs /\ rfiles = remote0.rfiles

\* the call ended while the existing submissions were still being fetched
ResolutionFailed ==
  /\ pc = "failed"
  /\ error = "RuntimeError"
  /\ calls[Len(calls)].op = "get_assignment_submissions"

\* the call is past the guards, E being the full set of existing submissions
PastGuards == pc \notin {"idle", "resolve", "collision"} /\ ~ResolutionFailed

Ended == pc \in {"done", "failed"}

SomeClaimed == \E s \in Values(E) : s.grader # None

\* the roster of the single existing submission differs from the request
RosterDiffers == \E s \in Values(E) : s.students # Range(students)

(***************************************************************************)
(* Properties.                                                             *)
(***************************************************************************)

\* C1: a call that ends with a policy violation (ExistsConflict,
\* ClaimedConflict or StudentSetConflict) has issued no gateway mutation
\* and leaves the remote store as it was when the call started.
C1_ViolationLeavesRemoteUntouched ==
  (pc = "failed" /\ error \in PolicyViolations)
    => (Mutations = {} /\ RemoteUntouched)

C1_Witness ==
  /\ pc = "failed"
  /\ error = "StudentSetConflict"
  /\ DOMAIN subs # {}

\* C2: with updateIfExists true, updateIfClaimed false and a claimed
\* submission in E, the call fails with ClaimedConflict and issues no
\* gateway mutation.
C2_ClaimedSetIsRefused ==
  (PastGuards /\ NumExisting > 0 /\ mode.updateIfExists /\ ~mode.updateIfClaimed
     /\ SomeClaimed)
    => (pc = "failed" /\ error = "ClaimedConflict" /\ Mutations = {})

\* C3: with updateIfExists true, updateIfClaimed false and no claimed
\* submission in E, the call does not fail with ClaimedConflict.
C3_UnclaimedSetIsNotRefused ==
  (PastGuards /\ NumExisting > 0 /\ mode.updateIfExists /\ ~mode.updateIfClaimed
     /\ ~SomeClaimed)
    => error # "ClaimedConflict"

\* C4: whenever E is not empty and updateIfExists is false the call fails
\* with ExistsConflict, whatever the other flags, graders and rosters, and
\* issues no gateway mutation.
C4_ExistsConflictComesFirst ==
  (PastGuards /\ NumExisting > 0 /\ ~mode.updateIfExists)
    => (pc = "failed" /\ error = "ExistsConflict" /\ Mutations = {})

C4_Witness ==
  /\ pc = "failed"
  /\ error = "ExistsConflict"
  /\ SomeClaimed
  /\ NumExisting > 1
  /\ mode.updateIfClaimed /\ mode.resolveStudents /\ mode.doUnclaim

\* C5: with resolveStudents false and no earlier guard firing, the call
\* fails with StudentSetConflict if E has several submissions or the roster
\* of the single one differs from the request, and otherwise passes the
\* guard and goes on to the update.
C5_StudentSetGuard ==
  (PastGuards /\ NumExisting > 0 /\ ~mode.resolveStudents
     /\ error \notin {"ExistsConflict", "ClaimedConflict"})
    => IF NumExisting > 1 \/ RosterDiffers
         THEN pc = "failed" /\ error = "StudentSetConflict"
         ELSE error \notin {"StudentSetConflict", "KeyError"}

\* C6: when E is empty, under every policy, no guard is evaluated, no
\* submission that existed is touched, and a call that returns has created
\* exactly one submission, whose roster is the requested students and
\* whose files are the desired files, by one post_submission and one
\* post_file per desired file.
C6_CreateWhenNoneExists ==
  (PastGuards /\ NumExisting = 0)
    => /\ error \notin PolicyViolations \cup {"KeyError", "TypeError"}
       /\ \A i \in DOMAIN remote0.subs : i \in DOMAIN subs /\ subs[i] = remote0.subs[i]
       /\ \A f \in DOMAIN remote0.rfiles :
            f \in DOMAIN rfiles /\ rfiles[f] = remote0.rfiles[f]
       /\ pc = "done" =>
            /\ result = "submission"
            /\ submission \notin DOMAIN remote0.subs
            /\ DOMAIN subs = DOMAIN remote0.subs \cup {submission}
            /\ subs[submission].students = Range(students)
            /\ Len(subs[submission].files) = Len(files)
            /\ \A j \in 1..Len(files) :
                 LET f == rfiles[subs[submission].files[j]] IN
                   File(f.name, f.extension, f.code) = files[j]
            /\ DOMAIN rfiles = DOMAIN remote0.rfiles \cup Range(subs[submission].files)
            /\ Len(calls) = Len(students) + 1 + Len(files)

C6_Witness ==
  /\ pc = "done"
  /\ NumExisting = 0
  /\ mode = CAUTIOUS
  /\ Len(files) > 0
  /\ DOMAIN remote0.subs # {}

\* C7: when E has two or more submissions, no guard fires and no remote
\* call fails, the call returns; afterwards no submission that existed
\* holds a requested student and exactly one new submission holds all the
\* requested students, with the desired files.
C7_SplitCompletes ==
  (Ended /\ NumExisting > 1
     /\ error \notin PolicyViolations \cup {"KeyError", "RuntimeError"})
    => /\ pc = "done"
       /\ \A i \in DOMAIN remote0.subs \cap DOMAIN subs :
            subs[i].students \cap Range(students) = {}
       /\ Cardinality({i \in DOMAIN subs \ DOMAIN remote0.subs :
                         subs[i].students = Range(students)
                         /\ Len(subs[i].files) = Len(files)}) = 1

\* C8: a second call with the same request under OVERWRITE returns
\* modified = false and issues no gateway mutation.
C8_OverwriteIsIdempotent ==
  (callNo = 2 /\ pc = "done" /\ mode = OVERWRITE)
    => (result = "False" /\ Mutations = {})

\* C9: a returning update (E has one submission) tells whether anything
\* changed: true iff the file diff reported a modification, false otherwise.
C9_UpdateReturnsModified ==
  (pc = "done" /\ NumExisting = 1)
    => /\ result \in {"True", "False"}
       /\ result = "True" <=> submission_was_modified

InUpdate ==
  /\ PastGuards
  /\ NumExisting = 1
  /\ error \notin PolicyViolations \cup {"KeyError"}

\* the file diff has returned
DiffReturned ==
  /\ InUpdate
  /\ \/ pc \in {"finish", "rc_submission", "rc_files", "rc_delete", "unclaim", "done"}
     \/ pc = "failed" /\ calls[Len(calls)].op = "set_submission_grader"

\* ids of the files the submission held when the call started
Files0 == Range(remote0.subs[submission].files)

\* ids of the files the submission holds now
FilesNow == Range(subs[submission].files)

SameKey(f, g) == f.name = g.name /\ f.extension = g.extension

SameText(f, g) == StripNewlines(f.code) = StripNewlines(g.code)

DesiredNames == {files[j].name : j \in 1..Len(files)}

FileMutations == {i \in 1..Len(calls) : calls[i].op \in {"post_file", "delete_file"}}

\* C11: when each desired file has an existing file of the same name and
\* extension with the same content up to newlines, and each existing file
\* is named by the request, the file diff issues no gateway mutation and
\* reports no modification, under every policy.
C11_NewlineInsensitive ==
  (/\ InUpdate
   /\ \A j \in 1..Len(files) :
        \E f \in Files0 : /\ SameKey(remote0.rfiles[f], files[j])
                          /\ SameText(remote0.rfiles[f], files[j])
   /\ \A f \in Files0 : \E j \in 1..Len(files) : SameKey(remote0.rfiles[f], files[j]))
    => /\ FileMutations = {}
       /\ ~submission_was_modified

\* the scenario of C12: one unclaimed submission holding a.py = "x\n" only,
\* the request a.py = "x", b.py = "y", the EXTEND policy
ExtendScenario ==
  /\ mode = EXTEND
  /\ files = <<File("a", "py", X), File("b", "py", Y)>>
  /\ NumExisting = 1
  /\ \A s \in Values(E) :
       /\ s.grader = None
       /\ Len(s.files) = 1
       /\ remote0.rfiles[s.files[1]] =
            [name |-> "a", extension |-> "py", code |-> XNL,
             comments |-> remote0.rfiles[s.files[1]].comments]

\* C12: in that scenario, remote failures aside, the call returns, has
\* created b.py on the submission, has issued no delete or create for
\* a.py, and reports a modification.
C12_ExtendAddsMissingFile ==
  (Ended /\ ~ResolutionFailed /\ error # "RuntimeError" /\ ExtendScenario)
    => /\ pc = "done"
       /\ result = "True"
       /\ \A s \in Values(E) :
            /\ s.id \in DOMAIN subs
            /\ s.files[1] \in DOMAIN rfiles
            /\ rfiles[s.files[1]] = remote0.rfiles[s.files[1]]
            /\ Len(subs[s.id].files) = 2
            /\ subs[s.id].files[1] = s.files[1]
            /\ LET b == rfiles[subs[s.id].files[2]] IN
                 File(b.name, b.extension, b.code) = File("b", "py", Y)
       /\ Cardinality(FileMutations) = 1

\* calls of remove_comments that only it issues, and calls of the unclaim
PurgeCalls == {i \in 1..Len(calls) : calls[i].op \in {"get_submission", "delete_comment"}}

UnclaimCalls == {i \in 1..Len(calls) : calls[i].op = "set_submission_grader"}

\* C13: in the update case the comment purge is issued iff the file diff
\* reported a modification and removeComments is set, the unclaim iff it
\* reported a modification and doUnclaim is set; the purge comes before the
\* unclaim and both after every file mutation; without a modification the
\* comments and the grader of the submission stay as they were.
C13_FinishingActionsGatedAndOrdered ==
  InUpdate
    => /\ PurgeCalls # {} => (submission_was_modified /\ mode.removeComments)
       /\ UnclaimCalls # {} => (submission_was_modified /\ mode.doUnclaim)
       /\ \A p \in PurgeCalls : \A u \in UnclaimCalls : p < u
       /\ \A f \in FileMutations : \A q \in PurgeCalls \cup UnclaimCalls : f < q
       /\ pc = "done" =>
            /\ (submission_was_modified /\ mode.removeComments) => PurgeCalls # {}
            /\ (submission_was_modified /\ mode.doUnclaim) =>
                 /\ UnclaimCalls # {}
                 /\ subs[submission].grader = None
                 /\ ~subs[submission].isFinalized
       /\ (DiffReturned /\ ~submission_was_modified) =>
            /\ subs[submission].grader = remote0.subs[submission].grader
            /\ subs[submission].isFinalized = remote0.subs[submission].isFinalized
            /\ rfiles = remote0.rfiles

C13_Witness ==
  /\ pc = "done"
  /\ InUpdate
  /\ FileMutations # {}
  /\ \E p \in PurgeCalls : calls[p].op = "delete_comment" /\ calls[p].ok
  /\ UnclaimCalls # {}
  /\ remote0.subs[submission].grader # None

\* the gateway calls of the current upload that failed
FailedCalls == {i \in 1..Len(calls) : ~calls[i].ok}

\* C14: every gateway call that fails during upload_submission, the reads
\* and comment deletions of the comment purge included, is the last call of
\* the upload, and the upload ends with the failure propagated.
C14_EveryFailureAborts ==
  \A i \in FailedCalls :
    /\ i = Len(calls)
    /\ pc = "failed"
    /\ error = "RuntimeError"

\* the students of an existing submission that the request does not name
Partners(i) == E[i].students \ Range(students)

\* C15: under OVERWRITE, once the upload has returned, every partner of an
\* existing submission who is not among the requested students is still
\* linked to that submission, with one or with several existing submissions.
C15_OverwriteKeepsPartners ==
  (mode = OVERWRITE /\ pc = "done" /\ NumExisting >= 1)
    => \A i \in DOMAIN E :
         /\ i \in DOMAIN subs
         /\ Partners(i) \subseteq subs[i].students

\* the remote submissions that list at least one requested student
SubmissionsOfRequested ==
  {i \in DOMAIN subs : subs[i].students \cap Range(students) # {}}

\* C16: the resolution phase yields the union by submission id of what is
\* fetched for each requested student, a submission shared by several of them
\* counting once; it issues one read per student and nothing else, and a
\* failed read ends the upload before any mutation.
C16_ResolutionIsUnionById ==
  /\ (pc \in {"resolve", "collision"} \/ ResolutionFailed) =>
       /\ \A i \in 1..Len(calls) : calls[i].op = "get_assignment_submissions"
       /\ Mutations = {}
       /\ RemoteUntouched
  /\ pc = "collision" =>
       /\ Len(calls) = Len(students)
       /\ DOMAIN E = SubmissionsOfRequested
       /\ NumExisting = Cardinality(SubmissionsOfRequested)
       /\ \A i \in DOMAIN E :
            /\ E[i].id = i
            /\ E[i].students = subs[i].students
            /\ E[i].grader = subs[i].grader
            /\ E[i].files = subs[i].files

C16_Witness ==
  /\ pc = "collision"
  /\ Len(calls) = 2
  /\ NumExisting = 1
  /\ \E i \in DOMAIN E : Range(students) \subseteq E[i].students

\* the files now on the submission that carry the name and extension of d
KeyFiles(d) == {f \in FilesNow : SameKey(rfiles[f], d)}

\* C17: once the file diff has returned, for a desired file whose name and
\* extension match an existing file g with a different content (newlines
\* aside): with updateExistingFiles, g was deleted and after that a file was
\* created, exactly one file with that name and extension is on the
\* submission, it holds the desired content, and a modification is reported;
\* without updateExistingFiles, g is still the only such file, content kept.
C17_ReplaceWhenContentDiffers ==
  DiffReturned =>
    \A j \in 1..Len(files) : \A g \in Files0 :
      (SameKey(remote0.rfiles[g], files[j]) /\ ~SameText(remote0.rfiles[g], files[j]))
        => IF mode.updateExistingFiles
             THEN /\ g \notin DOMAIN rfiles
                  /\ \E f \in FilesNow : /\ KeyFiles(files[j]) = {f}
                                         /\ rfiles[f].code = files[j].code
                  /\ \E i \in FileMutations :
                       /\ calls[i] = [op |-> "delete_file", id |-> g, ok |-> TRUE]
                       /\ \E k \in FileMutations : k > i /\ calls[k].op = "post_file"
                  /\ submission_was_modified
             ELSE /\ KeyFiles(files[j]) = {g}
                  /\ rfiles[g].code = remote0.rfiles[g].code

\* the desired file d had a file of its name and extension on the submission
MatchedAtStart(d) == \E g \in Files0 : SameKey(remote0.rfiles[g], d)

\* C18: once the file diff has returned, a desired file that had no existing
\* file of its name and extension has exactly one, newly created with its
\* content, when addFiles is set (and a modification is reported), and none
\* when addFiles is not set; a desired file that had one still has exactly
\* one, whatever other files share its name; when nothing is matched and
\* neither addFiles nor deleteUnspecifiedFiles is set, no file call is issued
\* and no modification is reported.
C18_CreateIffUnmatched ==
  DiffReturned =>
    /\ \A j \in 1..Len(files) :
         IF MatchedAtStart(files[j])
           THEN Cardinality(KeyFiles(files[j])) = 1
           ELSE IF mode.addFiles
             THEN /\ \E f \in FilesNow \ Files0 :
                       /\ KeyFiles(files[j]) = {f}
                       /\ rfiles[f].code = files[j].code
                  /\ submission_was_modified
             ELSE KeyFiles(files[j]) = {}
    /\ (/\ \A j \in 1..Len(files) : ~MatchedAtStart(files[j])
        /\ ~mode.addFiles
        /\ ~mode.deleteUnspecifiedFiles)
         => FileMutations = {} /\ ~submission_was_modified

\* the files the submission held at the start whose name the request lacks
Unspecified0 == {g \in Files0 : remote0.rfiles[g].name \notin DesiredNames}

\* C19: once the file diff has returned, with deleteUnspecifiedFiles every
\* file the submission held whose name is not a desired name is gone and a
\* modification is reported; without the flag every such file is still
\* there; and a file whose name is a desired name, and whose name and
\* extension no desired file has, is still there in both cases.
C19_DeleteUnspecifiedByName ==
  DiffReturned =>
    /\ mode.deleteUnspecifiedFiles =>
         /\ Unspecified0 \cap FilesNow = {}
         /\ Unspecified0 # {} => submission_was_modified
    /\ ~mode.deleteUnspecifiedFiles => Unspecified0 \subseteq FilesNow
    /\ \A g \in Files0 \ Unspecified0 :
         (\A j \in 1..Len(files) : ~SameKey(remote0.rfiles[g], files[j]))
           => g \in FilesNow

\* C20: once the file diff has returned, it reports a modification if and
\* only if it issued at least one post_file or delete_file call.
C20_ModifiedIffFileCall ==
  DiffReturned => (submission_was_modified <=> FileMutations # {})

C20_Witness ==
  /\ pc = "finish"
  /\ DiffReturned
  /\ submission_was_modified
  /\ FileMutations # {}
  /\ \A i \in FileMutations : calls[i].op = "delete_file"

\* the call is past the guards with several existing submissions
InSplit ==
  /\ PastGuards
  /\ NumExisting > 1
  /\ error \notin PolicyViolations \cup {"KeyError"}

\* the roster of existing submission i without the requested students
Remainder(i) == E[i].students \ Range(students)

\* the calls that adjust existing submission i in the split case
AdjustCalls(i) ==
  {k \in 1..Len(calls) : /\ calls[k].op \in {"delete_submission", "set_submission_students"}
                         /\ calls[k].id = i}

\* the submissions created since the call started, with the requested roster
CreatedForRequest ==
  {n \in DOMAIN subs \ DOMAIN remote0.subs : subs[n].students = Range(students)}

\* C21: in the split case without deleteAffectedSubmissions, gateway
\* failures aside, the call returns; each existing submission was adjusted
\* by exactly one call, is gone when no student remains on it and otherwise
\* carries exactly the remaining students; and the new submission was
\* created after all these adjustments.
C21_SplitTrimsEachRoster ==
  (InSplit /\ ~mode.deleteAffectedSubmissions /\ Ended /\ error # "RuntimeError")
    => /\ pc = "done"
       /\ \A i \in DOMAIN E :
            /\ Cardinality(AdjustCalls(i)) = 1
            /\ IF Remainder(i) = {}
                 THEN i \notin DOMAIN subs
                 ELSE i \in DOMAIN subs /\ subs[i].students = Remainder(i)
       /\ CreatedForRequest # {}
       /\ \A k \in 1..Len(calls) : calls[k].op = "post_submission" =>
            \A i \in DOMAIN E : \A a \in AdjustCalls(i) : a < k

\* C22: in the split case with deleteAffectedSubmissions, gateway failures
\* aside, the call returns the created submission, every existing submission
\* is gone whether students remained on it or not, and the new submission
\* for the requested students exists.
C22_SplitDeletesAffected ==
  (InSplit /\ mode.deleteAffectedSubmissions /\ Ended /\ error # "RuntimeError")
    => /\ pc = "done"
       /\ result = "submission"
       /\ \A i \in DOMAIN E : i \notin DOMAIN subs
       /\ CreatedForRequest # {}

\* every finalized submission has a grader
FinalizedHaveGrader ==
  \A i \in DOMAIN subs : subs[i].isFinalized => subs[i].grader # None

\* one step: a submission whose grader is cleared is not finalized after
\* it, and no submission becomes finalized, a created one included
FinalizedStep ==
  \A i \in DOMAIN subs' :
    /\ subs'[i].isFinalized => (i \in DOMAIN subs /\ subs[i].isFinalized)
    /\ (i \in DOMAIN subs /\ subs[i].grader # None /\ subs'[i].grader = None)
         => ~subs'[i].isFinalized

\* C23: through uploads and the helpers called on their own, from a store
\* where every finalized submission has a grader, every finalized submission
\* has a grader; a step that clears a grader leaves the submission not
\* finalized, and no step makes a submission finalized.
C23_FinalizedHasGrader == []FinalizedHaveGrader /\ [][FinalizedStep]_vars

C23_Witness ==
  /\ pc = "done"
  /\ calls[Len(calls)] \in {[op |-> "set_submission_grader", id |-> i, ok |-> TRUE] :
                              i \in DOMAIN subs}
  /\ \E i \in DOMAIN subs :
       /\ i \in DOMAIN remote0.subs
       /\ remote0.subs[i].isFinalized
       /\ subs[i].grader = None
       /\ ~subs[i].isFinalized

\* delete_submission, delete_file or a roster trim that deletes, called on
\* its own, has ended
DirectDeleteEnded ==
  /\ Ended
  /\ Len(calls) = 1
  /\ calls[1].op \in {"delete_submission", "delete_file"}

\* C24: delete_submission and delete_file raise exactly when the remote
\* reports a failure: a delete the remote performed returns to its caller.
C24_DeleteFailsOnlyOnRemoteFailure ==
  DirectDeleteEnded => (pc = "failed" <=> ~calls[1].ok)

\* the files deleted by a delete_file call of the running call
DeletedFiles ==
  {f \in DOMAIN remote0.rfiles :
     \E k \in 1..Len(calls) : calls[k] = [op |-> "delete_file", id |-> f, ok |-> TRUE]}

\* comment c of file f, there when the call started, is no longer there
CommentGone(f, c) == f \notin DOMAIN rfiles \/ c \notin rfiles[f].comments

\* the comment purge of the running call has deleted comment c
PurgedComment(c) ==
  /\ submission_was_modified
  /\ mode.removeComments
  /\ \E k \in PurgeCalls : calls[k] = [op |-> "delete_comment", id |-> c, ok |-> TRUE]

\* C25: during an upload a comment goes only with its file, deleted by the
\* file diff, or through the comment purge, which runs only after a reported
\* modification with removeComments; without removeComments every file the
\* diff did not delete is still there with all its comments.
C25_CommentsGoOnlyWithFileOrPurge ==
  /\ \A f \in DOMAIN remote0.rfiles : \A c \in remote0.rfiles[f].comments :
       CommentGone(f, c) => (f \in DeletedFiles \/ PurgedComment(c))
  /\ ~mode.removeComments =>
       \A f \in (DOMAIN remote0.rfiles) \ DeletedFiles :
         /\ f \in DOMAIN rfiles
         /\ rfiles[f].comments = remote0.rfiles[f].comments

C25_Witness ==
  /\ pc = "done"
  /\ InUpdate
  /\ ~mode.removeComments
  /\ submission_was_modified
  /\ DeletedFiles # {}
  /\ \E f \in Files0 \cap FilesNow :
       /\ rfiles[f].comments # {}
       /\ rfiles[f].comments = remote0.rfiles[f].comments

\* the delete calls of the running call
DeleteCalls ==
  {k \in 1..Len(calls) : calls[k].op \in {"delete_submission", "delete_file"}}

\* C26: within one upload no submission id is passed to delete_submission
\* twice and no file id is passed to delete_file twice.
C26_NoDeleteTwice ==
  \A k \in DeleteCalls : \A l \in DeleteCalls :
    (k < l /\ calls[k].op = calls[l].op) => calls[k].id # calls[l].id

====
